---- MODULE Spec2Model ----
(***************************************************************************)
(* Model of secure_notepad.py: a Tk notepad whose notes are kept in one    *)
(* Fernet-encrypted file, notes.enc, in the working directory.             *)
(*                                                                         *)
(* Texts are sequences of one-character strings.  A note (a Python dict)   *)
(* is a function from its keys to texts; a bare JSON string s inside the   *)
(* decoded list is the function [str |-> s].                               *)
(* The file is the sequence of the five fields of a Fernet token           *)
(* (version, timestamp, IV, ciphertext, HMAC); a truncated file is a       *)
(* proper prefix of that sequence.  AES and HMAC are symbolic: a           *)
(* ciphertext names its key, IV and plaintext, a tag names its key and     *)
(* the fields it covers.                                                   *)
(***************************************************************************)
EXTENDS Integers, Sequences, FiniteSets, TLC

\* ---------------------------------------------------------------- bounds
MaxNotes == 2
MaxEditors == 1
\* file-system errors raised to one run of the process
MaxFaults == 1

\* ---------------------------------------------------------------- inputs
None == "<None>"
Passwords == {"p1", "p2"}
\* what simpledialog.askstring can return: a text, the empty text, or None
PwInputs == Passwords \cup {"", None}

\* what the user leaves in the editor's title entry
RawTitles == { <<" ">>, <<"T">>, <<" ", "U">> }
\* what the user leaves in the editor's body widget (Tk appends "\n" on get)
RawBodies == { <<>>, <<"B", " ">> }

\* the IV (os.urandom) and the timestamp (time.time) of a token: no handler
\* reads them back, one value stands for all
IVs == {0}
Times == {0}

\* ------------------------------------------------------------- key, Fernet
\* hashlib.sha256(password.encode()).digest(), base64-encoded: one key per
\* password, no other input
make_key(password) == <<"sha256", password>>

\* Fernet(key): the object holds the key
Fernet(key) == key

FERNET_VERSION == 128
TokenParts == 5

AES(key, iv, plaintext) == <<"aes", key, iv, plaintext>>
HMAC(key, ver, ts, iv, ct) == <<"hmac", key, <<ver, ts, iv, ct>>>>

\* fernet.encrypt(plaintext): version || timestamp || IV || ciphertext || HMAC
encrypt(fernet, ts, iv, plaintext) ==
    LET ct == AES(fernet, iv, plaintext)
    IN  <<FERNET_VERSION, ts, iv, ct, HMAC(fernet, FERNET_VERSION, ts, iv, ct)>>

\* decrypt without the comparison of the tag
decrypt_unverified(fernet, data) ==
    IF Len(data) # TokenParts
    THEN [res |-> "InvalidToken", plaintext |-> <<>>]
    ELSE IF data[1] # FERNET_VERSION
    THEN [res |-> "InvalidToken", plaintext |-> <<>>]
    ELSE IF Len(data[4]) = 4 /\ data[4][1] = "aes" /\ data[4][2] = fernet
              /\ data[4][3] = data[3]
    THEN [res |-> "ok", plaintext |-> data[4][4]]
    ELSE [res |-> "InvalidToken", plaintext |-> <<>>]

\* fernet.decrypt(data): raises InvalidToken unless the token is complete,
\* has the version byte, carries the tag of its own fields under this key,
\* and its ciphertext decrypts and unpads under this key
decrypt(fernet, data) ==
    IF Len(data) # TokenParts
    THEN [res |-> "InvalidToken", plaintext |-> <<>>]
    ELSE IF data[1] # FERNET_VERSION
    THEN [res |-> "InvalidToken", plaintext |-> <<>>]
    ELSE IF data[5] # HMAC(fernet, data[1], data[2], data[3], data[4])
    THEN [res |-> "InvalidToken", plaintext |-> <<>>]
    ELSE IF Len(data[4]) = 4 /\ data[4][1] = "aes" /\ data[4][2] = fernet
              /\ data[4][3] = data[3]
    THEN [res |-> "ok", plaintext |-> data[4][4]]
    ELSE [res |-> "InvalidToken", plaintext |-> <<>>]

\* -------------------------------------------------------------------- JSON
\* JSON text is a sequence of tokens: punctuation or a string literal
P(c) == <<"p", <<c>>>>
S(text) == <<"s", text>>

NoteKeys == <<"title", "body">>

RECURSIVE dumps_pairs(_, _)
dumps_pairs(item, ks) ==
    IF ks = <<>> THEN <<>>
    ELSE LET k == Head(ks)
             rest == dumps_pairs(item, Tail(ks))
         IN  IF k \in DOMAIN item
             THEN <<S(<<k>>), P(":"), S(item[k])>>
                  \o (IF rest = <<>> THEN <<>> ELSE <<P(",")>> \o rest)
             ELSE rest

dumps_item(item) ==
    IF DOMAIN item = {"str"} THEN <<S(item.str)>>
    ELSE <<P("{")>> \o dumps_pairs(item, NoteKeys) \o <<P("}")>>

RECURSIVE dumps_items(_)
dumps_items(notes) ==
    IF notes = <<>> THEN <<>>
    ELSE dumps_item(Head(notes))
         \o (IF Tail(notes) = <<>> THEN <<>>
             ELSE <<P(",")>> \o dumps_items(Tail(notes)))

RECURSIVE dumps_items_nosep(_)
dumps_items_nosep(notes) ==
    IF notes = <<>> THEN <<>>
    ELSE dumps_item(Head(notes)) \o dumps_items_nosep(Tail(notes))

\* json_dumps without the "," between the elements of the list
json_dumps_nosep(notes) ==
    <<P("[")>> \o dumps_items_nosep(notes) \o <<P("]")>>

\* json.dumps(notes).encode()
json_dumps(notes) == <<P("[")>> \o dumps_items(notes) \o <<P("]")>>

Bad == [ok |-> FALSE, val |-> <<>>, next |-> 0]

IsStr(toks, i) == i \in DOMAIN toks /\ toks[i][1] = "s"
IsP(toks, i, c) == i \in DOMAIN toks /\ toks[i] = P(c)

\* the pairs of an object, from position i, up to and including "}"
RECURSIVE loads_pairs(_, _, _)
loads_pairs(toks, i, acc) ==
    IF IsStr(toks, i) /\ IsP(toks, i + 1, ":") /\ IsStr(toks, i + 2)
    THEN LET k == toks[i][2][1]
             v == toks[i + 2][2]
             acc2 == [x \in (DOMAIN acc) \cup {k} |->
                         IF x = k THEN v ELSE acc[x]]
         IN  IF IsP(toks, i + 3, "}")
             THEN [ok |-> TRUE, val |-> acc2, next |-> i + 4]
             ELSE IF IsP(toks, i + 3, ",")
             THEN loads_pairs(toks, i + 4, acc2)
             ELSE Bad
    ELSE Bad

\* one element of the list, from position i
loads_item(toks, i) ==
    IF IsStr(toks, i)
    THEN [ok |-> TRUE, val |-> [str |-> toks[i][2]], next |-> i + 1]
    ELSE IF IsP(toks, i, "{")
    THEN IF IsP(toks, i + 1, "}")
         THEN [ok |-> TRUE, val |-> [x \in {} |-> <<>>], next |-> i + 2]
         ELSE loads_pairs(toks, i + 1, [x \in {} |-> <<>>])
    ELSE Bad

\* the elements of a list, from position i, up to and including "]"
RECURSIVE loads_items(_, _, _)
loads_items(toks, i, acc) ==
    LET it == loads_item(toks, i)
    IN  IF ~it.ok THEN Bad
        ELSE IF IsP(toks, it.next, "]")
        THEN [ok |-> TRUE, val |-> Append(acc, it.val), next |-> it.next + 1]
        ELSE IF IsP(toks, it.next, ",")
        THEN loads_items(toks, it.next + 1, Append(acc, it.val))
        ELSE Bad

\* json.loads(plaintext.decode()): the decoded value, whatever its shape
json_loads(toks) ==
    IF ~IsP(toks, 1, "[") THEN [ok |-> FALSE, val |-> <<>>]
    ELSE IF IsP(toks, 2, "]")
    THEN [ok |-> Len(toks) = 2, val |-> <<>>]
    ELSE LET r == loads_items(toks, 2, <<>>)
         IN  [ok |-> r.ok /\ r.next = Len(toks) + 1, val |-> r.val]

\* ------------------------------------------------------------------- files
\* the file notes.enc: whether it exists, and its content
NOTES_FILE(exists, data) == [exists |-> exists, data |-> data]
NoFile == NOTES_FILE(FALSE, <<>>)

\* load_notes that takes a file it cannot decrypt for an empty store
load_notes_lenient(fernet, file) ==
    IF ~file.exists THEN [res |-> "ok", notes |-> <<>>]
    ELSE LET d == decrypt(fernet, file.data)
         IN  IF d.res # "ok" THEN [res |-> "ok", notes |-> <<>>]
             ELSE LET j == json_loads(d.plaintext)
                  IN  IF j.ok THEN [res |-> "ok", notes |-> j.val]
                      ELSE [res |-> "JSONDecodeError", notes |-> <<>>]

\* load_notes(fernet): [] when the file is absent, else decrypt and parse
load_notes(fernet, file) ==
    IF ~file.exists THEN [res |-> "ok", notes |-> <<>>]
    ELSE LET d == decrypt(fernet, file.data)
         IN  IF d.res # "ok" THEN [res |-> "InvalidToken", notes |-> <<>>]
             ELSE LET j == json_loads(d.plaintext)
                  IN  IF j.ok THEN [res |-> "ok", notes |-> j.val]
                      ELSE [res |-> "JSONDecodeError", notes |-> <<>>]

\* How one call of save_notes can end.  written = -1: open(NOTES_FILE, "wb")
\* did not happen (it raised, or the process was terminated before it);
\* written = k >= 0: the file was opened, which truncates it, and the
\* first k of the token's TokenParts fields reached the disk.  The token
\* leaves the write buffer when the file is closed, so the incomplete write
\* the model draws is the empty file; decrypt treats every proper prefix of
\* a token alike.
PartialWrites == {0}
SaveFaults ==
    {[kind |-> "none", written |-> TokenParts]}
    \cup {[kind |-> "OSError", written |-> w] : w \in {-1} \cup PartialWrites}
    \cup {[kind |-> "killed", written |-> w] :
             w \in {-1, TokenParts} \cup PartialWrites}

\* save_notes that opens the file with "ab" instead of "wb"
save_notes_append(notes, fernet, ts, iv, fault, file) ==
    LET plaintext == json_dumps(notes)
        token == encrypt(fernet, ts, iv, plaintext)
    IN  IF fault.written = -1 THEN file
        ELSE NOTES_FILE(TRUE, file.data \o SubSeq(token, 1, fault.written))

\* save_notes(notes, fernet): the file it leaves on disk
save_notes(notes, fernet, ts, iv, fault, file) ==
    LET plaintext == json_dumps(notes)
        token == encrypt(fernet, ts, iv, plaintext)
    IN  IF fault.written = -1 THEN file
        ELSE NOTES_FILE(TRUE, SubSeq(token, 1, fault.written))

\* -------------------------------------------------------------------- texts
Whitespace == {" ", "\n"}

RECURSIVE lstrip(_)
lstrip(text) ==
    IF text # <<>> /\ Head(text) \in Whitespace THEN lstrip(Tail(text))
    ELSE text

RECURSIVE rstrip(_)
rstrip(text) ==
    IF text # <<>> /\ text[Len(text)] \in Whitespace
    THEN rstrip(SubSeq(text, 1, Len(text) - 1))
    ELSE text

\* str.strip()
strip(text) == rstrip(lstrip(text))

\* --------------------------------------------------------------- the window
\* refresh_listbox: empties the listbox, then inserts "i. title" per note;
\* note['title'] raises on an element that is no dict or has no title
RECURSIVE listbox_items(_, _)
listbox_items(notes, i) ==
    IF i > Len(notes) THEN [res |-> "ok", items |-> <<>>]
    ELSE IF DOMAIN notes[i] = {"str"}
    THEN [res |-> "TypeError", items |-> <<>>]
    ELSE IF "title" \notin DOMAIN notes[i]
    THEN [res |-> "KeyError", items |-> <<>>]
    ELSE LET rest == listbox_items(notes, i + 1)
         IN  [res |-> rest.res,
              items |-> <<<<i, notes[i].title>>>> \o rest.items]

\* refresh_listbox that leaves out the first note
refresh_listbox_skip(notes) == listbox_items(notes, 2)

refresh_listbox(notes) == listbox_items(notes, 1)

\* -------------------------------------------------------------------- state
VARIABLES
    disk,       \* the file notes.enc
    phase,      \* "stopped": no process; "running": root.mainloop()
    fernet,     \* app.fernet, the key of the session
    notes,      \* app.notes
    listbox,    \* the lines of app.listbox
    editors,    \* the open editor windows, each by its on_save callback
    last,       \* the last operation that got past its dialogs, and how
                \* it ended
    faults,     \* the OSErrors this run of the process has met
    rt,         \* SpecCodec: one save_notes / load_notes round trip
    stores,     \* SpecKey: the notes.enc of each working directory
    script,     \* SpecEmpty: how far the run is into "first run, one add,
                \* quit, reopen"
    held        \* SpecEdit: one editor opened by edit_note, and where the
                \* note selected for it is now

app == <<disk, phase, fernet, notes, listbox, editors, last, faults>>
probes == <<rt, stores, script, held>>
vars == <<disk, phase, fernet, notes, listbox, editors, last, faults,
          rt, stores, script, held>>

NoKey == <<"none", "">>

Outcome(op, res) == [op |-> op, res |-> res]

\* a store left by the variant of the program that kept one bare string
\* per note, under the same key derivation
LegacyNotes == << [str |-> <<"x">>] >>
LegacyFile(password) ==
    NOTES_FILE(TRUE, encrypt(Fernet(make_key(password)), 0, 0,
                             json_dumps(LegacyNotes)))

InitFiles == {NoFile, LegacyFile("p1")}

\* the process is gone: nothing of its memory remains
Stopped ==
    /\ phase' = "stopped"
    /\ fernet' = NoKey
    /\ notes' = <<>>
    /\ listbox' = <<>>
    /\ editors' = {}
    /\ faults' = 0

NoFault == [kind |-> "none", written |-> TokenParts]
NoNote == [title |-> <<>>, body |-> <<>>]

RtIdle == [pc |-> "idle", C |-> <<>>, P |-> "", file |-> NoFile,
           out |-> [res |-> "none", notes |-> <<>>]]
Dirs == {"a", "b"}
NoStores == [d \in Dirs |-> [password |-> None, file |-> NoFile]]
ScriptOff == [st |-> "off", key |-> NoKey, note |-> NoNote]
NoHeld == [open |-> FALSE, idx |-> -1, pos |-> -1]

InitApp ==
    /\ phase = "stopped"
    /\ fernet = NoKey
    /\ notes = <<>>
    /\ listbox = <<>>
    /\ editors = {}
    /\ faults = 0
    /\ last = Outcome("none", "ok")

Init ==
    /\ disk \in InitFiles
    /\ InitApp
    /\ rt = RtIdle
    /\ stores = NoStores
    /\ script = ScriptOff
    /\ held = NoHeld

\* main that writes an empty store when it opens without a file
main_creating(password, confirm) ==
    /\ phase = "stopped"
    /\ IF password \in {"", None}
       THEN Stopped /\ last' = Outcome("main", "cancelled") /\ UNCHANGED disk
       ELSE IF ~disk.exists /\ confirm # password
       THEN Stopped /\ last' = Outcome("main", "mismatch") /\ UNCHANGED disk
       ELSE LET f == Fernet(make_key(password))
                ld == load_notes(f, disk)
                lb == refresh_listbox(ld.notes)
            IN  IF ld.res # "ok"
                THEN Stopped /\ last' = Outcome("main", ld.res)
                     /\ UNCHANGED disk
                ELSE IF lb.res # "ok"
                THEN Stopped /\ last' = Outcome("main", lb.res)
                     /\ UNCHANGED disk
                ELSE /\ phase' = "running"
                     /\ fernet' = f
                     /\ notes' = ld.notes
                     /\ listbox' = lb.items
                     /\ editors' = {}
                     /\ faults' = 0
                     /\ last' = Outcome("main", "ok")
                     /\ disk' = IF disk.exists THEN disk
                                ELSE save_notes(<<>>, f, 0, 0, NoFault, disk)

\* main that does not ask for the confirmation
main_unconfirmed(password, confirm) ==
    /\ phase = "stopped"
    /\ UNCHANGED disk
    /\ IF password \in {"", None}
       THEN Stopped /\ last' = Outcome("main", "cancelled")
       ELSE LET f == Fernet(make_key(password))
                ld == load_notes(f, disk)
                lb == refresh_listbox(ld.notes)
            IN  IF ld.res # "ok"
                THEN Stopped /\ last' = Outcome("main", ld.res)
                ELSE IF lb.res # "ok"
                THEN Stopped /\ last' = Outcome("main", lb.res)
                ELSE /\ phase' = "running"
                     /\ fernet' = f
                     /\ notes' = ld.notes
                     /\ listbox' = lb.items
                     /\ editors' = {}
                     /\ faults' = 0
                     /\ last' = Outcome("main", "ok")

\* main(): the password dialogs, the load, the window
main(password, confirm) ==
    /\ phase = "stopped"
    /\ UNCHANGED disk
    /\ IF password \in {"", None}
       THEN Stopped /\ last' = Outcome("main", "cancelled")
       ELSE IF ~disk.exists /\ confirm # password
       THEN Stopped /\ last' = Outcome("main", "mismatch")
       ELSE LET f == Fernet(make_key(password))
                ld == load_notes(f, disk)
                lb == refresh_listbox(ld.notes)
            IN  IF ld.res # "ok"
                THEN Stopped /\ last' = Outcome("main", ld.res)
                ELSE IF lb.res # "ok"
                THEN Stopped /\ last' = Outcome("main", lb.res)
                ELSE /\ phase' = "running"
                     /\ fernet' = f
                     /\ notes' = ld.notes
                     /\ listbox' = lb.items
                     /\ editors' = {}
                     /\ faults' = 0
                     /\ last' = Outcome("main", "ok")

\* what follows the change of app.notes in the three mutating handlers:
\* save_notes, then refresh_listbox, then (in an editor) win.destroy()
Persist(op, notes2, editors2, ts, iv, fault) ==
    /\ fault.kind = "OSError" => faults < MaxFaults
    /\ disk' = save_notes(notes2, fernet, ts, iv, fault, disk)
    /\ last' = Outcome(op, IF fault.kind = "none" THEN "ok" ELSE fault.kind)
    /\ IF fault.kind = "killed" THEN Stopped
       ELSE /\ notes' = notes2
            /\ UNCHANGED <<phase, fernet>>
            /\ IF fault.kind = "none"
               THEN /\ listbox' = refresh_listbox(notes2).items
                    /\ editors' = editors2
                    /\ UNCHANGED faults
               ELSE /\ faults' = faults + 1
                    /\ UNCHANGED <<listbox, editors>>

\* the user backs out of a dialog, or nothing is selected: the handler
\* returns and nothing is different
Return == UNCHANGED app

\* a handler that ends, by an exception or a warning, before anything changed
Raise(op, res) ==
    /\ last' = Outcome(op, res)
    /\ UNCHANGED <<disk, phase, fernet, notes, listbox, editors, faults>>

\* del that removes the last element whatever the index
RemoveAt_last(seq, i) == SubSeq(seq, 1, Len(seq) - 1)

\* del seq[i] (i counted from 1)
RemoveAt(seq, i) == SubSeq(seq, 1, i - 1) \o SubSeq(seq, i + 1, Len(seq))

\* An editor window is known by what its save button calls: save_new_note,
\* or save_edited_note with the idx captured by edit_note (-1: none).  Two
\* windows with the same callback are one element of the set.
Editor(on_save, idx) == [on_save |-> on_save, idx |-> idx]
Editors ==
    {Editor("save_new_note", -1)}
    \cup {Editor("save_edited_note", i) : i \in 0..(MaxNotes - 1)}

\* askstring for the title: cancelled (None) or a text
AskTitle ==
    {[cancelled |-> TRUE, text |-> <<>>]}
    \cup {[cancelled |-> FALSE, text |-> t] : t \in RawTitles}

\* add_note: ask for a title, open an editor bound to save_new_note
add_note(title) ==
    /\ phase = "running"
    /\ Cardinality(editors) < MaxEditors
    /\ IF title.cancelled \/ title.text = <<>>
       THEN Return
       ELSE /\ editors' = editors \cup {Editor("save_new_note", -1)}
            /\ last' = Outcome("add_note", "ok")
            /\ UNCHANGED <<disk, phase, fernet, notes, listbox, faults>>

\* edit_note: open an editor bound to save_edited_note(idx, ...), idx being
\* the selected line (sel = -1: nothing selected)
edit_note(sel) ==
    /\ phase = "running"
    /\ sel < Len(listbox)
    /\ Cardinality(editors) < MaxEditors
    /\ IF sel = -1 THEN Return
       ELSE IF sel >= Len(notes) THEN Raise("edit_note", "IndexError")
       ELSE IF {"title", "body"} \ DOMAIN notes[sel + 1] # {}
       THEN Raise("edit_note", "KeyError")
       ELSE /\ editors' = editors \cup {Editor("save_edited_note", sel)}
            /\ last' = Outcome("edit_note", "ok")
            /\ UNCHANGED <<disk, phase, fernet, notes, listbox, faults>>

\* save_new_note that stores the two fields under each other's key
save_new_note_swapped(e, title, body, ts, iv, fault) ==
    Persist("save_new_note",
            Append(notes, [title |-> body, body |-> title]),
            editors \ {e}, ts, iv, fault)

\* save_new_note(title, body), called by the editor e
save_new_note(e, title, body, ts, iv, fault) ==
    Persist("save_new_note",
            Append(notes, [title |-> title, body |-> body]),
            editors \ {e}, ts, iv, fault)

\* save_edited_note that appends when idx is past the end
save_edited_note_append(e, idx, title, body, ts, iv, fault) ==
    IF idx >= Len(notes)
    THEN Persist("save_edited_note",
                 Append(notes, [title |-> title, body |-> body]),
                 editors \ {e}, ts, iv, fault)
    ELSE Persist("save_edited_note",
                 [notes EXCEPT ![idx + 1] = [title |-> title, body |-> body]],
                 editors \ {e}, ts, iv, fault)

\* save_edited_note(idx, title, body), called by the editor e
save_edited_note(e, idx, title, body, ts, iv, fault) ==
    IF idx >= Len(notes) THEN Raise("save_edited_note", "IndexError")
    ELSE Persist("save_edited_note",
                 [notes EXCEPT ![idx + 1] = [title |-> title, body |-> body]],
                 editors \ {e}, ts, iv, fault)

\* guardar without the test for empty fields
guardar_unchecked(e, rawTitle, rawBody, ts, iv, fault) ==
    /\ phase = "running"
    /\ e \in editors
    /\ LET t == strip(rawTitle)
           b == strip(rawBody \o <<"\n">>)
       IN  IF e.on_save = "save_new_note"
           THEN /\ Len(notes) < MaxNotes
                /\ save_new_note(e, t, b, ts, iv, fault)
           ELSE save_edited_note(e, e.idx, t, b, ts, iv, fault)

\* guardar: the editor's save button
guardar(e, rawTitle, rawBody, ts, iv, fault) ==
    /\ phase = "running"
    /\ e \in editors
    /\ LET t == strip(rawTitle)
           b == strip(rawBody \o <<"\n">>)
       IN  IF t = <<>> \/ b = <<>> THEN Raise("guardar", "empty")
           ELSE IF e.on_save = "save_new_note"
           THEN /\ Len(notes) < MaxNotes
                /\ save_new_note(e, t, b, ts, iv, fault)
           ELSE save_edited_note(e, e.idx, t, b, ts, iv, fault)

\* delete_note: delete the selected line's note after confirmation
delete_note(sel, yes, ts, iv, fault) ==
    /\ phase = "running"
    /\ sel < Len(listbox)
    /\ IF sel = -1 THEN Return
       ELSE IF ~yes THEN Return
       ELSE IF sel >= Len(notes) THEN Raise("delete_note", "IndexError")
       ELSE Persist("delete_note", RemoveAt(notes, sel + 1), editors,
                    ts, iv, fault)

\* view_note: show the selected line's note read-only
view_note(sel) ==
    /\ phase = "running"
    /\ sel < Len(listbox)
    /\ IF sel = -1 THEN Return
       ELSE IF sel >= Len(notes) THEN Raise("view_note", "IndexError")
       ELSE IF {"title", "body"} \ DOMAIN notes[sel + 1] # {}
       THEN Raise("view_note", "KeyError")
       ELSE Raise("view_note", "ok")

\* the Refrescar button
refresh ==
    /\ phase = "running"
    /\ listbox' = refresh_listbox(notes).items
    /\ last' = Outcome("refresh_listbox", refresh_listbox(notes).res)
    /\ UNCHANGED <<disk, phase, fernet, notes, editors, faults>>

\* the Salir button: root.quit ends mainloop and main returns
quit ==
    /\ phase = "running"
    /\ Stopped
    /\ last' = Outcome("quit", "ok")
    /\ UNCHANGED disk

\* the file is a token that some key authenticates
IsToken(data) ==
    /\ Len(data) = TokenParts
    /\ data[1] = FERNET_VERSION
    /\ Len(data[5]) = 3
    /\ data[5] = HMAC(data[5][2], data[1], data[2], data[3], data[4])

\* a changed value for field i of a token
Flip(i, data) ==
    CASE i = 1 -> FERNET_VERSION + 1
      [] i = 2 -> data[2] + 1
      [] i = 3 -> data[3] + 1
      [] i = 4 -> <<"changed", data[4]>>
      [] i = 5 -> <<"changed", data[5]>>

\* between two runs, somebody changes one field of the stored token
tamper(i) ==
    /\ phase = "stopped"
    /\ disk.exists
    /\ IsToken(disk.data)
    /\ disk' = NOTES_FILE(TRUE, [disk.data EXCEPT ![i] = Flip(i, disk.data)])
    /\ last' = Outcome("tamper", "ok")
    /\ UNCHANGED <<phase, fernet, notes, listbox, editors, faults>>

\* the ways the save can end, for the inputs with which a handler saves
GuardarFaults(rawTitle, rawBody) ==
    IF strip(rawTitle) = <<>> \/ strip(rawBody \o <<"\n">>) = <<>>
    THEN {NoFault} ELSE SaveFaults
DeleteFaults(sel, yes) == IF sel = -1 \/ ~yes THEN {NoFault} ELSE SaveFaults

\* curselection(): -1 for the empty selection, else a line of the listbox
Selections == -1..(MaxNotes - 1)

Next ==
    \/ \E password \in PwInputs, confirm \in PwInputs :
          main(password, confirm) /\ UNCHANGED probes
    \/ \E title \in AskTitle : add_note(title) /\ UNCHANGED probes
    \/ \E sel \in Selections : edit_note(sel) /\ UNCHANGED probes
    \/ \E e \in Editors, rawTitle \in RawTitles, rawBody \in RawBodies :
          \E ts \in Times, iv \in IVs, fault \in GuardarFaults(rawTitle, rawBody) :
            guardar(e, rawTitle, rawBody, ts, iv, fault) /\ UNCHANGED probes
    \/ \E sel \in Selections, yes \in BOOLEAN :
          \E ts \in Times, iv \in IVs, fault \in DeleteFaults(sel, yes) :
            delete_note(sel, yes, ts, iv, fault) /\ UNCHANGED probes
    \/ \E sel \in Selections : view_note(sel) /\ UNCHANGED probes
    \/ refresh /\ UNCHANGED probes
    \/ quit /\ UNCHANGED probes
    \/ \E i \in 1..TokenParts : tamper(i) /\ UNCHANGED probes

Spec == Init /\ [][Next]_vars

\* ------------------------------------------------- first run, add, reopen
\* SpecEmpty runs the program as Spec does and follows, in script, the runs
\* that open without a file, save one new note, quit and open again with
\* the same password; anything else sets script to off.
TrackMain(password) ==
    script' =
        IF phase' = "running" /\ ~disk.exists
        THEN [st |-> "opened", key |-> Fernet(make_key(password)),
              note |-> NoNote]
        ELSE IF phase' = "running" /\ script.st = "closed"
                /\ script.key = Fernet(make_key(password))
        THEN [script EXCEPT !.st = "reopened"]
        ELSE ScriptOff

TrackGuardar(e, rawTitle, rawBody, fault) ==
    script' =
        IF strip(rawTitle) = <<>> \/ strip(rawBody \o <<"\n">>) = <<>>
        THEN script
        ELSE IF script.st = "opened" /\ e.on_save = "save_new_note"
                /\ fault.kind = "none"
        THEN [script EXCEPT !.st = "added",
                            !.note = [title |-> strip(rawTitle),
                                      body |-> strip(rawBody \o <<"\n">>)]]
        ELSE ScriptOff

TrackDelete(sel, yes) ==
    script' = IF sel = -1 \/ ~yes THEN script ELSE ScriptOff

TrackQuit ==
    script' = IF script.st = "added" THEN [script EXCEPT !.st = "closed"]
              ELSE ScriptOff

NextEmpty ==
    \/ \E password \in PwInputs, confirm \in PwInputs :
          main(password, confirm) /\ TrackMain(password)
          /\ UNCHANGED <<rt, stores, held>>
    \/ \E title \in AskTitle : add_note(title) /\ UNCHANGED probes
    \/ \E sel \in Selections : edit_note(sel) /\ UNCHANGED probes
    \/ \E e \in Editors, rawTitle \in RawTitles, rawBody \in RawBodies :
          \E ts \in Times, iv \in IVs, fault \in GuardarFaults(rawTitle, rawBody) :
            guardar(e, rawTitle, rawBody, ts, iv, fault)
            /\ TrackGuardar(e, rawTitle, rawBody, fault)
            /\ UNCHANGED <<rt, stores, held>>
    \/ \E sel \in Selections, yes \in BOOLEAN :
          \E ts \in Times, iv \in IVs, fault \in DeleteFaults(sel, yes) :
            delete_note(sel, yes, ts, iv, fault) /\ TrackDelete(sel, yes)
            /\ UNCHANGED <<rt, stores, held>>
    \/ \E sel \in Selections : view_note(sel) /\ UNCHANGED probes
    \/ refresh /\ UNCHANGED probes
    \/ quit /\ TrackQuit /\ UNCHANGED <<rt, stores, held>>
    \/ \E i \in 1..TokenParts :
          tamper(i) /\ script' = ScriptOff /\ UNCHANGED <<rt, stores, held>>

SpecEmpty == Init /\ [][NextEmpty]_vars

\* ------------------------------------------------ an editor and its note
\* SpecEdit runs the program as Spec does and follows, in held, one editor
\* opened by edit_note: idx is the index its callback captured, pos the
\* index at which the note selected for it stands now (-1 once that note
\* has been deleted).
HeldEdit(sel) ==
    held' =
        IF ~held.open /\ last' = Outcome("edit_note", "ok")
              /\ Editor("save_edited_note", sel) \in editors'
        THEN [open |-> TRUE, idx |-> sel, pos |-> sel]
        ELSE held

HeldGuardar(e) ==
    held' =
        IF phase' = "stopped" THEN NoHeld
        ELSE IF held.open /\ e = Editor("save_edited_note", held.idx)
                /\ e \notin editors'
        THEN NoHeld
        ELSE held

HeldDelete(sel) ==
    held' =
        IF phase' = "stopped" THEN NoHeld
        ELSE IF held.open /\ Len(notes') < Len(notes)
        THEN [held EXCEPT !.pos = IF held.pos = -1 \/ sel = held.pos THEN -1
                                  ELSE IF sel < held.pos THEN held.pos - 1
                                  ELSE held.pos]
        ELSE held

NextEdit ==
    \/ \E password \in PwInputs, confirm \in PwInputs :
          main(password, confirm) /\ held' = NoHeld
          /\ UNCHANGED <<rt, stores, script>>
    \/ \E title \in AskTitle : add_note(title) /\ UNCHANGED probes
    \/ \E sel \in Selections :
          edit_note(sel) /\ HeldEdit(sel) /\ UNCHANGED <<rt, stores, script>>
    \/ \E e \in Editors, rawTitle \in RawTitles, rawBody \in RawBodies :
          \E ts \in Times, iv \in IVs, fault \in GuardarFaults(rawTitle, rawBody) :
            guardar(e, rawTitle, rawBody, ts, iv, fault)
            /\ HeldGuardar(e)
            /\ UNCHANGED <<rt, stores, script>>
    \/ \E sel \in Selections, yes \in BOOLEAN :
          \E ts \in Times, iv \in IVs, fault \in DeleteFaults(sel, yes) :
            delete_note(sel, yes, ts, iv, fault) /\ HeldDelete(sel)
            /\ UNCHANGED <<rt, stores, script>>
    \/ \E sel \in Selections : view_note(sel) /\ UNCHANGED probes
    \/ refresh /\ UNCHANGED probes
    \/ quit /\ held' = NoHeld /\ UNCHANGED <<rt, stores, script>>
    \/ \E i \in 1..TokenParts : tamper(i) /\ UNCHANGED probes

SpecEdit == Init /\ [][NextEdit]_vars

\* -------------------------------------------------- save, then load, alone
\* texts a note may hold, among them the empty text and texts that read
\* like JSON punctuation or like a key
CodecTexts == { <<>>, <<"T">>, <<"title">>, <<"]">> }
CodecNotes == [title : CodecTexts, body : CodecTexts]
Collections == UNION {[1..n -> CodecNotes] : n \in 0..MaxNotes}

InitCodec ==
    /\ disk = NoFile
    /\ InitApp
    /\ stores = NoStores
    /\ script = ScriptOff
    /\ held = NoHeld
    /\ rt \in {[pc |-> "input", C |-> c, P |-> p, file |-> NoFile,
                out |-> RtIdle.out] : c \in Collections, p \in Passwords}

\* save_notes(C, Fernet(make_key(P))) into an absent file
rt_save(ts, iv) ==
    /\ rt.pc = "input"
    /\ rt' = [rt EXCEPT !.pc = "saved",
                        !.file = save_notes(rt.C, Fernet(make_key(rt.P)),
                                            ts, iv, NoFault, NoFile)]
    /\ UNCHANGED <<app, stores, script, held>>

\* load_notes(Fernet(make_key(P))) from that file
rt_load ==
    /\ rt.pc = "saved"
    /\ rt' = [rt EXCEPT !.pc = "loaded",
                        !.out = load_notes(Fernet(make_key(rt.P)), rt.file)]
    /\ UNCHANGED <<app, stores, script, held>>

NextCodec ==
    \/ \E ts \in Times, iv \in IVs : rt_save(ts, iv)
    \/ rt_load

SpecCodec == InitCodec /\ [][NextCodec]_vars

\* ------------------------------------------- one store per working directory
\* NOTES_FILE is a relative path: each working directory has its own store.
\* first_run: main() where no notes.enc exists, the password typed twice,
\* then the first save_new_note
first_run(d, password, title, body, ts, iv) ==
    /\ ~stores[d].file.exists
    /\ stores' = [stores EXCEPT ![d] =
          [password |-> password,
           file |-> save_notes(<<[title |-> title, body |-> body]>>,
                               Fernet(make_key(password)), ts, iv,
                               NoFault, stores[d].file)]]
    /\ UNCHANGED <<app, rt, script, held>>

InitKey ==
    /\ disk = NoFile
    /\ InitApp
    /\ rt = RtIdle
    /\ script = ScriptOff
    /\ held = NoHeld
    /\ stores = NoStores

NextKey ==
    \E d \in Dirs, password \in Passwords,
       title \in CodecTexts \ {<<>>}, body \in CodecTexts \ {<<>>},
       ts \in Times, iv \in IVs :
        first_run(d, password, title, body, ts, iv)

SpecKey == InitKey /\ [][NextKey]_vars

\* ------------------------------------------------------------------ claims
Mutations == {"save_new_note", "save_edited_note", "delete_note"}

\* every element is a dict with exactly a title and a body
WellFormed(ns) == \A i \in DOMAIN ns : DOMAIN ns[i] = {"title", "body"}

\* the key a token was authenticated with
TokenKey(data) == data[5][2]

\* C1: after a completed save_new_note, save_edited_note or delete_note the
\* file decrypts under the session's key to exactly app.notes
C1_Persisted ==
    (phase = "running" /\ last.op \in Mutations /\ last.res = "ok")
        => load_notes(fernet, disk) = [res |-> "ok", notes |-> notes]

C1_Witness ==
    /\ phase = "running"
    /\ last = Outcome("delete_note", "ok")
    /\ Len(notes) = 1
    /\ load_notes(fernet, disk).notes = notes

\* C2: when the process is terminated during a save, the file is the file
\* of before or the complete new token, never a truncated one
C2_AtomicSave ==
    [][last'.res = "killed" => (disk' = disk \/ IsToken(disk'.data))]_vars

\* C4: a file saved under one password does not load under the key of
\* another (load_notes raises InvalidToken); main with the other password
\* ends with InvalidToken, the process returns and no note is held
C4_WrongPassword ==
    [][\A password \in Passwords \cup {""} :
          (/\ disk.exists
           /\ IsToken(disk.data)
           /\ TokenKey(disk.data) # make_key(password))
          => /\ load_notes(Fernet(make_key(password)), disk).res
                  = "InvalidToken"
             /\ (password # "" /\ main(password, password))
                  => (/\ last' = Outcome("main", "InvalidToken")
                      /\ phase' = "stopped"
                      /\ notes' = <<>>)]_vars

C4_Witness ==
    /\ last = Outcome("main", "InvalidToken")
    /\ disk.exists
    /\ IsToken(disk.data)
    /\ \E p \in Passwords :
          /\ load_notes(Fernet(make_key(p)), disk).res = "ok"
          /\ load_notes(Fernet(make_key(p)), disk).notes # <<>>

\* C6: save_edited_note and delete_note with an index past the end raise
\* IndexError, leave app.notes as it was and do not write the file
C6_Bounds ==
    [][/\ \A e \in Editors :
             (/\ last'.op = "save_edited_note"
              /\ e \in editors
              /\ e.on_save = "save_edited_note"
              /\ e.idx >= Len(notes))
             => \A rawTitle \in RawTitles, rawBody \in RawBodies,
                   ts \in Times, iv \in IVs, fault \in SaveFaults :
                   (/\ strip(rawTitle) # <<>>
                    /\ strip(rawBody \o <<"\n">>) # <<>>
                    /\ guardar(e, rawTitle, rawBody, ts, iv, fault))
                   => (/\ last' = Outcome("save_edited_note", "IndexError")
                       /\ notes' = notes
                       /\ disk' = disk)
       /\ \A sel \in 0..(MaxNotes - 1) :
             (/\ last'.op = "delete_note"
              /\ phase = "running"
              /\ sel >= Len(notes)
              /\ sel < Len(listbox))
             => \A ts \in Times, iv \in IVs, fault \in SaveFaults :
                   delete_note(sel, TRUE, ts, iv, fault)
                   => (/\ last' = Outcome("delete_note", "IndexError")
                       /\ notes' = notes
                       /\ disk' = disk)]_vars

C6_Witness ==
    /\ last = Outcome("save_edited_note", "IndexError")
    /\ notes = <<>>
    /\ Editor("save_edited_note", 0) \in editors
    /\ disk.exists

\* C7: a save that ends with a file-system error leaves the file as it was
C7_FailedWriteNoOp ==
    [][last'.res = "OSError" => disk' = disk]_vars

\* C8: a file that decrypts to something other than a list of title/body
\* records is rejected with MalformedRecord and the process holds no notes
C8_SchemaChecked ==
    [][\A password \in Passwords :
          (/\ load_notes(Fernet(make_key(password)), disk).res = "ok"
           /\ ~WellFormed(load_notes(Fernet(make_key(password)), disk).notes)
           /\ main(password, password))
          => (/\ last' = Outcome("main", "MalformedRecord")
              /\ phase' = "stopped"
              /\ notes' = <<>>)]_vars

\* C10: after any one field of a valid token was changed, opening ends
\* with InvalidToken for every password and no note is held
C10_TamperDetected ==
    [][\A password \in Passwords, confirm \in PwInputs :
          (last.op = "tamper" /\ main(password, confirm))
          => (/\ last' = Outcome("main", "InvalidToken")
              /\ phase' = "stopped"
              /\ notes' = <<>>)]_vars

C10_Witness ==
    /\ last = Outcome("main", "InvalidToken")
    /\ Len(disk.data) = TokenParts
    /\ ~IsToken(disk.data)
    /\ disk.data[4][1] = "aes"
    /\ Len(disk.data[4][4]) > 2

\* C3: save_notes then load_notes under the key of the same password gives
\* back the collection: same length, same order, same title and body
C3_RoundTrip ==
    rt.pc = "loaded" => rt.out = [res |-> "ok", notes |-> rt.C]

C3_Witness ==
    /\ rt.pc = "loaded"
    /\ Len(rt.C) = 2
    /\ rt.C[1] # rt.C[2]
    /\ rt.out.notes = rt.C

\* C5: a run that opens without a file holds no notes, for any password;
\* after one new note and a reopening with the same password the program
\* holds exactly that note
C5_EmptyStore ==
    /\ script.st = "opened" => (phase = "running" /\ notes = <<>>)
    /\ script.st = "reopened" => (phase = "running" /\ notes = <<script.note>>)

C5_Witness ==
    /\ script.st = "reopened"
    /\ last = Outcome("main", "ok")
    /\ notes = <<[title |-> <<"T">>, body |-> <<"B">>]>>

\* C9: the key of a store is a function of its password, and two stores
\* made with the same password are not encrypted under the same key
C9_SaltedKeys ==
    /\ \A d \in Dirs :
          stores[d].file.exists
          => TokenKey(stores[d].file.data) = make_key(stores[d].password)
    /\ \A d1 \in Dirs, d2 \in Dirs :
          (/\ d1 # d2
           /\ stores[d1].file.exists
           /\ stores[d2].file.exists
           /\ stores[d1].password = stores[d2].password)
          => TokenKey(stores[d1].file.data) # TokenKey(stores[d2].file.data)


C16_FirstRunConfirm ==
    [][\A password \in PwInputs, confirm \in PwInputs :
          (~disk.exists /\ main(password, confirm))
          => IF password \in Passwords /\ confirm = password
             THEN /\ phase' = "running"
                  /\ fernet' = Fernet(make_key(password))
                  /\ last' = Outcome("main", "ok")
             ELSE /\ phase' = "stopped"
                  /\ fernet' = NoKey
                  /\ notes' = <<>>
                  /\ ~disk'.exists
                  /\ last'.res \in {"cancelled", "mismatch"}]_vars

C16_Witness ==
    /\ last = Outcome("main", "mismatch")
    /\ phase = "stopped"
    /\ fernet = NoKey
    /\ ~disk.exists


\* a text that is not empty and has no white space at either end
Filled(text) ==
    /\ text # <<>>
    /\ Head(text) \notin Whitespace
    /\ text[Len(text)] \notin Whitespace

\* what the editor's two fields can hold when the title or the body is
\* empty after trimming
EmptyFields ==
    {raw \in RawTitles \X RawBodies :
        strip(raw[1]) = <<>> \/ strip(raw[2] \o <<"\n">>) = <<>>}

\* C12: every note of app.notes has a title and a body that are not empty
\* and are trimmed; the save button of an editor whose title or body is
\* empty after trimming changes neither app.notes nor the file and leaves
\* the editor open (a step of the save button is one that ends in guardar
\* itself or in the callback it calls)
C12_NonEmptyNotes ==
    [][/\ \A i \in DOMAIN notes' :
             Filled(notes'[i].title) /\ Filled(notes'[i].body)
       /\ last'.op \in {"guardar", "save_new_note", "save_edited_note"}
          => \A e \in editors, raw \in EmptyFields :
                \A ts \in Times, iv \in IVs,
                   fault \in GuardarFaults(raw[1], raw[2]) :
                   guardar(e, raw[1], raw[2], ts, iv, fault)
                   => (/\ last' = Outcome("guardar", "empty")
                       /\ notes' = notes
                       /\ disk' = disk
                       /\ editors' = editors)]_vars

C12_Witness ==
    /\ last = Outcome("guardar", "empty")
    /\ Editor("save_edited_note", 0) \in editors
    /\ Len(notes) = 1
    /\ Filled(notes[1].title)
    /\ Filled(notes[1].body)
    /\ load_notes(fernet, disk).notes = notes


\* what the editor's two fields can hold when neither is empty after
\* trimming
FilledFields == (RawTitles \X RawBodies) \ EmptyFields

\* how a handler that saved with this fault ends
SaveResult(fault) == IF fault.kind = "none" THEN "ok" ELSE fault.kind

\* C13: save_new_note puts the new note at the end and leaves the notes
\* before it in place; save_edited_note at a valid index replaces the note
\* at that index only and keeps the length; delete_note at a valid index
\* removes that note only and keeps the others in their order
C13_OrderKept ==
    [][/\ last'.op \in {"save_new_note", "save_edited_note"}
          => \A e \in editors, raw \in FilledFields :
                (e.on_save = "save_edited_note" => e.idx < Len(notes))
                => \A ts \in Times, iv \in IVs, fault \in SaveFaults :
                      (fault.kind # "killed"
                       /\ last' = Outcome(e.on_save, SaveResult(fault))
                       /\ guardar(e, raw[1], raw[2], ts, iv, fault))
                      => LET n == [title |-> strip(raw[1]),
                                   body |-> strip(raw[2] \o <<"\n">>)]
                             k == IF e.on_save = "save_new_note"
                                  THEN Len(notes) + 1 ELSE e.idx + 1
                         IN  /\ Len(notes') = IF e.on_save = "save_new_note"
                                              THEN Len(notes) + 1
                                              ELSE Len(notes)
                             /\ notes'[k] = n
                             /\ \A i \in DOMAIN notes \ {k} :
                                   notes'[i] = notes[i]
       /\ (last'.op = "delete_note" /\ phase = "running")
          => \A sel \in 0..(MaxNotes - 1) :
                (sel < Len(notes) /\ sel < Len(listbox))
                => \A ts \in Times, iv \in IVs, fault \in SaveFaults :
                      (fault.kind # "killed"
                       /\ last'.res = SaveResult(fault)
                       /\ delete_note(sel, TRUE, ts, iv, fault))
                      => /\ Len(notes') = Len(notes) - 1
                         /\ \A i \in 1..sel : notes'[i] = notes[i]
                         /\ \A i \in (sel + 1)..Len(notes') :
                               notes'[i] = notes[i + 1]]_vars

C13_Witness ==
    /\ last = Outcome("delete_note", "ok")
    /\ phase = "running"
    /\ Len(notes) = 1
    /\ notes[1].title = <<"U">>
    /\ listbox = <<<<1, <<"U">>>>>>
    /\ load_notes(fernet, disk).notes = notes


C14_SameNote ==
    [][\A rawTitle \in RawTitles, rawBody \in RawBodies :
          (/\ held.open
           /\ last'.op = "save_edited_note"
           /\ strip(rawTitle) # <<>>
           /\ strip(rawBody \o <<"\n">>) # <<>>)
          => \A ts \in Times, iv \in IVs, fault \in SaveFaults :
                guardar(Editor("save_edited_note", held.idx),
                        rawTitle, rawBody, ts, iv, fault)
                => /\ held.pos = held.idx
                   /\ last'.res # "IndexError"]_vars

====
